---- MODULE Spec2Model ----
(***************************************************************************)
(* Visual matching engine of the spare-parts identification backend: the   *)
(* corpus store held by AIService (backend/ai_service.py), the CLIP        *)
(* embedding comparator, the match orchestrator analyze_image, and the     *)
(* health_check endpoint of backend/main.py.                               *)
(*                                                                         *)
(* Numbers.  Similarities are floats in the code; here they are integers   *)
(* in thousandths, so 1.0 is 1000 and 0.9 is 900.  Embeddings are integer  *)
(* vectors; every embedding of the model has Euclidean norm 5, which makes *)
(* every cosine a whole number of thousandths (float rounding is not       *)
(* modelled).                                                              *)
(*                                                                         *)
(* analyze_image is split into the steps at which calls running in         *)
(* parallel threads can interleave: availability check, extraction, one    *)
(* iteration of the scan loop, ranking.                                    *)
(***************************************************************************)
EXTENDS Integers, Sequences, FiniteSets, TLC

VARIABLES
    CLIP_AVAILABLE,   \* ai_service.py:29-38  did the CLIP model load at import
    EMBEDDINGS_FILE,  \* ai_service.py:41     the feature archive on disk
    MAPPING_FILE,     \* ai_service.py:42     the JSON metadata array on disk
    ai_service,       \* main.py:46-51        the AIService object, or None
    ai_available,     \* main.py:47-52,75     the web layer's availability flag
    calls,            \* the in-flight analyze_image calls, one record per slot
    IMAGES_ROOT,      \* compute_clip_embeddings.py:25  the image files on disk
    last_build,       \* which corpus builder ran last, and on how many images
    comparator,       \* a call of compute_clip_similarity: inputs and result
    scorer,           \* a call of the local scoring functions: inputs and results
    extractor,        \* a call of get_image_features_from_bytes: detection and result
    spare_parts,      \* models.py:10-21     the rows of table spare_parts
    UPLOAD_DIR,       \* main.py:37          the saved uploads: path -> bytes
    requests,         \* the upload_image requests being served, one per slot
    last_call         \* the last create_spare_part call or add_missing_parts run

vars == <<CLIP_AVAILABLE, EMBEDDINGS_FILE, MAPPING_FILE, ai_service, ai_available, calls,
          IMAGES_ROOT, last_build, comparator, scorer, extractor,
          spare_parts, UPLOAD_DIR, requests, last_call>>

\* the state of the components a specification does not exercise
Bench == <<comparator, scorer, extractor>>
Disk == <<IMAGES_ROOT, last_build>>
Web == <<spare_parts, UPLOAD_DIR, requests, last_call>>

----------------------------------------------------------------------------
(* Bounds of the model *)

\* longest feature archive
MaxCorpus == 2
\* number of analyze_image calls that can be in flight together
MaxCalls == 2

Calls == 1..MaxCalls

----------------------------------------------------------------------------
(* Python's None and values that may be None *)

None == [some |-> FALSE, val |-> <<>>]
Some(v) == [some |-> TRUE, val |-> v]

----------------------------------------------------------------------------
(* Data *)

\* largest norm CHOOSE looks for in Norm
MaxNorm == 10

\* uploaded images: two decodable ones and one that PIL cannot open
Images == {"img_A", "img_B", "img_corrupt"}

\* the unit vector the CLIP encoder yields for an image (scaled by 5)
ClipEncode(image_data) ==
    IF image_data = "img_A" THEN <<5, 0>> ELSE <<3, 4>>

\* archive records: an embedding record, an embedding of another model
\* version (wrong dimension), or a keypoint/descriptor record
ClipRecord(v) == [has_clip |-> TRUE, clip_features |-> v]
SiftRecord == [has_clip |-> FALSE, clip_features |-> <<>>]
Records == {ClipRecord(<<5, 0>>), ClipRecord(<<4, 3>>), ClipRecord(<<5, 0, 0>>),
            SiftRecord}

\* catalog material numbers, backend/sample_data.py
Catalog == <<"SP001", "SP002", "SP003", "SP004", "SP005", "SP006">>

SeqsUpTo(S, n) == UNION {[1..k -> S] : k \in 0..n}

UnreadableFile == [readable |-> FALSE, content |-> <<>>]
ReadableFile(c) == [readable |-> TRUE, content |-> c]

\* what part_image_embeddings.npy can hold
EmbeddingFiles == {UnreadableFile} \cup {ReadableFile(s) : s \in SeqsUpTo(Records, MaxCorpus)}

\* what part_image_embeddings_map.json can hold: a JSON array, possibly
\* shorter or longer than the archive
MappingArray(len) == [i \in 1..len |-> [material_number |-> Catalog[i]]]
MappingFiles == {UnreadableFile} \cup {ReadableFile(MappingArray(len)) : len \in 0..(MaxCorpus + 1)}

----------------------------------------------------------------------------
(* Embedding comparator *)

RECURSIVE DotUpTo(_, _, _)
DotUpTo(a, b, n) == IF n = 0 THEN 0 ELSE DotUpTo(a, b, n - 1) + a[n] * b[n]

Dot(a, b) == DotUpTo(a, b, Len(a))

Norm(v) == CHOOSE n \in 0..MaxNorm : n * n = Dot(v, v)

\* a cosine that divides by the first vector's norm only
cosine_by_first_norm(a, b) ==
    IF Norm(a) = 0 THEN 0
    ELSE (1000 * Dot(a, b)) \div (Norm(a) * Norm(a))

\* torch.nn.functional.cosine_similarity(a, b, dim=1), in thousandths
cosine_similarity(a, b) ==
    IF Norm(a) * Norm(b) = 0 THEN 0
    ELSE (1000 * Dot(a, b)) \div (Norm(a) * Norm(b))

\* the details dict; {} is EmptyDetails
EmptyDetails == [present |-> FALSE, cosine_similarity |-> 0, normalized_similarity |-> 0,
                 feature_dimensions |-> 0]

\* compute_clip_similarity_detailed: (similarity, details); any exception
\* inside (here: embeddings of different dimension) gives (0.0, {})
compute_clip_similarity_detailed(query_features, stored_features) ==
    IF Len(query_features) # Len(stored_features)
    THEN [similarity |-> 0, details |-> EmptyDetails]
    ELSE LET similarity == cosine_similarity(query_features, stored_features)
             similarity_score == (similarity + 1000) \div 2
         IN  [similarity |-> similarity_score,
              details |-> [present |-> TRUE, cosine_similarity |-> similarity,
                           normalized_similarity |-> similarity_score,
                           feature_dimensions |-> Len(query_features)]]

----------------------------------------------------------------------------
(* Corpus store: AIService.__init__ and _load_features *)

\* a partial load: the except branch forgets to reset what was already read
load_features_keeps_partial(embeddings_file, mapping_file) ==
    [stored_features |-> IF embeddings_file.readable
                         THEN Some(embeddings_file.content) ELSE None,
     mapping |-> IF mapping_file.readable THEN Some(mapping_file.content) ELSE None]

\* _load_features: np.load, then json.load; any exception resets both to None
load_features(embeddings_file, mapping_file) ==
    IF embeddings_file.readable /\ mapping_file.readable
    THEN [stored_features |-> Some(embeddings_file.content),
          mapping |-> Some(mapping_file.content)]
    ELSE [stored_features |-> None, mapping |-> None]

\* AIService.is_model_available
is_model_available(self) ==
    self.stored_features.some /\ self.mapping.some

----------------------------------------------------------------------------
(* Embedding extractor *)

\* get_clip_features_from_bytes: the normalized embedding, or None when the
\* image cannot be opened or the CLIP handles do not exist (NameError caught)
get_clip_features_from_bytes(clip_loaded, image_data) ==
    IF ~clip_loaded \/ image_data = "img_corrupt"
    THEN None
    ELSE Some(ClipEncode(image_data))

----------------------------------------------------------------------------
(* Match orchestrator: the pure parts of AIService.analyze_image *)

\* semantic threshold, 0.9
min_similarity_threshold == 900

\* the spare_parts_data argument (database rows handed over by the web layer)
spare_parts_data == [k \in 1..3 |-> [material_number |-> Catalog[k]]]

\* a fallback that answers the first parts with a low confidence
fallback_low_confidence(ai_response, parts) ==
    [matches |-> [k \in 1..Len(parts) |->
                    [material_number |-> parts[k].material_number,
                     confidence_score |-> 300 - (k - 1) * 100,
                     details |-> EmptyDetails]],
     invoked |-> {"_fallback_analysis"}]

\* a fallback that runs the keypoint extractor and matcher and finds nothing
fallback_keypoints(ai_response, parts) ==
    [matches |-> <<>>,
     invoked |-> {"_fallback_analysis", "get_image_features_from_bytes",
                  "compute_image_similarity"}]

\* _fallback_analysis: disabled, always no matches; invoked names the
\* components the body runs
fallback_analysis(ai_response, parts) ==
    [matches |-> <<>>, invoked |-> {"_fallback_analysis"}]

\* one iteration of the scan loop for archive position i (1-based here):
\* error is the exception that leaves the loop, "" when there is none;
\* appended says whether lines 427-428 were reached
ScanEntry(query_features, stored_feature, i, mapping) ==
    IF ~stored_feature.has_clip
    THEN [error |-> "KeyError: 'clip_features'", appended |-> FALSE,
          similarity |-> 0, details |-> EmptyDetails]
    ELSE IF i > Len(mapping)
    THEN [error |-> "IndexError: list index out of range", appended |-> FALSE,
          similarity |-> 0, details |-> EmptyDetails]
    ELSE LET r == compute_clip_similarity_detailed(query_features,
                                                   stored_feature.clip_features)
         IN  [error |-> IF r.details.present THEN ""
                        ELSE "KeyError: 'cosine_similarity'",
              appended |-> TRUE, similarity |-> r.similarity, details |-> r.details]

\* the threshold test of line 440
passes_threshold(sim_score) == sim_score >= min_similarity_threshold

\* lines 438-447: the entries at or above the threshold, in corpus order
RECURSIVE valid_matches_upto(_, _, _, _)
valid_matches_upto(similarities, similarity_details, mapping, n) ==
    IF n = 0 THEN <<>>
    ELSE LET before == valid_matches_upto(similarities, similarity_details, mapping, n - 1)
         IN  IF passes_threshold(similarities[n])
             THEN Append(before, [material_number |-> mapping[n].material_number,
                                  confidence_score |-> similarities[n],
                                  details |-> similarity_details[n]])
             ELSE before

\* an unstable order: a later entry of equal score moves in front
stays_before_strict(x, y) == x.confidence_score > y.confidence_score

\* list.sort(key=confidence_score, reverse=True) is stable: x, already in
\* the list, stays in front of a later y unless y scores strictly higher
stays_before(x, y) == x.confidence_score >= y.confidence_score

RECURSIVE insert_sorted(_, _)
insert_sorted(sorted, y) ==
    IF sorted = <<>> THEN <<y>>
    ELSE IF stays_before(Head(sorted), y)
         THEN <<Head(sorted)>> \o insert_sorted(Tail(sorted), y)
         ELSE <<y>> \o sorted

RECURSIVE sort_by_confidence(_, _)
sort_by_confidence(matches, n) ==
    IF n = 0 THEN <<>>
    ELSE insert_sorted(sort_by_confidence(matches, n - 1), matches[n])

\* a top-N policy: every match above the threshold is returned
report_all(valid_matches) == valid_matches

\* lines 453-467: report the single best match, or nothing
report(valid_matches) ==
    IF valid_matches # <<>> THEN <<valid_matches[1]>> ELSE <<>>

\* lines 433-467
Ranking(similarities, similarity_details, mapping) ==
    LET valid_matches == valid_matches_upto(similarities, similarity_details, mapping,
                                            Len(similarities))
    IN  report(sort_by_confidence(valid_matches, Len(valid_matches)))

----------------------------------------------------------------------------
(* analyze_image run from start to end with nothing else running *)

Returned(matches) == [kind |-> "returned", value |-> matches, error |-> ""]
Raised(error) == [kind |-> "raised", value |-> <<>>, error |-> error]

\* lines 416-467 from archive position i on
RECURSIVE scan_from(_, _, _, _, _, _)
scan_from(query_features, stored, mapping, i, similarities, similarity_details) ==
    IF i > Len(stored)
    THEN Returned(Ranking(similarities, similarity_details, mapping))
    ELSE LET e == ScanEntry(query_features, stored[i], i, mapping)
         IN  IF e.error # "" THEN Raised(e.error)
             ELSE scan_from(query_features, stored, mapping, i + 1,
                            Append(similarities, e.similarity),
                            Append(similarity_details, e.details))

\* AIService.analyze_image(image_data, spare_parts_data)
analyze_image(self, clip_loaded, image_data) ==
    IF ~self.stored_features.some \/ ~self.mapping.some
    THEN Returned(fallback_analysis("", spare_parts_data).matches)
    ELSE LET query_features == get_clip_features_from_bytes(clip_loaded, image_data)
         IN  IF ~query_features.some
             THEN Returned(fallback_analysis("", spare_parts_data).matches)
             ELSE scan_from(query_features.val, self.stored_features.val,
                            self.mapping.val, 1, <<>>, <<>>)

----------------------------------------------------------------------------
(* State *)

\* the rows of the sample catalog: id, material_number, category
SampleTable == [k \in 1..3 |-> [id |-> k, material_number |-> Catalog[k],
                                category |-> "Catalog"]]

\* the paths upload_image saves to: f"{timestamp}_{file.filename}", the
\* timestamp to the second
Timestamps == {"20240101_120000", "20240101_120001"}
Filenames == {"part.jpg"}
UploadPaths == [timestamp : Timestamps, filename : Filenames]

\* an empty uploads directory
NoUploads == [path \in UploadPaths |-> "absent"]

\* a request slot nobody uses
IdleRequest == [pc |-> "Idle"]

\* no corpus builder has run; a component nobody has called
NoBuild == [by |-> "", images |-> 0, written |-> FALSE]
NoCall == [pc |-> "Idle"]

\* a call slot nobody uses
IdleCall == [pc |-> "Idle", image_data |-> "", query_features |-> None, i |-> 0,
             similarities |-> <<>>, similarity_details |-> <<>>,
             outcome |-> Returned(<<>>), invoked |-> {}]

Init ==
    /\ CLIP_AVAILABLE \in BOOLEAN
    /\ EMBEDDINGS_FILE \in EmbeddingFiles
    /\ MAPPING_FILE \in MappingFiles
    /\ ai_service = None
    /\ ai_available = FALSE
    /\ calls = [c \in Calls |-> IdleCall]
    /\ IMAGES_ROOT = <<>>
    /\ last_build = NoBuild
    /\ comparator = NoCall
    /\ scorer = NoCall
    /\ extractor = NoCall
    /\ spare_parts = SampleTable
    /\ UPLOAD_DIR = NoUploads
    /\ requests = [r \in Calls |-> IdleRequest]
    /\ last_call = NoCall

Files == <<CLIP_AVAILABLE, EMBEDDINGS_FILE, MAPPING_FILE>>

\* what the service's steps leave alone besides the files
Apart == <<Disk, Bench, Web>>

\* main.py:49-52: ai_service = AIService(); ai_available = True
Construct ==
    /\ ~ai_service.some
    /\ ai_service' = Some(load_features(EMBEDDINGS_FILE, MAPPING_FILE))
    /\ ai_available' = TRUE
    /\ UNCHANGED <<Files, Apart, calls>>

\* main.py:69-92: the health endpoint refreshes ai_available
health_check ==
    /\ ai_service.some
    /\ ai_available' = is_model_available(ai_service.val)
    /\ UNCHANGED <<Files, Apart, ai_service, calls>>

\* an assignment to self.stored_features where line 420 assigns a local
self_after_line_420_clobbered(self, stored_feature) ==
    [self EXCEPT !.stored_features = Some(<<stored_feature>>)]

\* line 420 binds the local name stored_features: the object is untouched
self_after_line_420(self, stored_feature) == self

\* the query embedding kept in one place shared by all calls (an attribute
\* of the service or a module global) instead of a local
set_query_features_shared(cs, c, query_features) ==
    [k \in DOMAIN cs |-> [cs[k] EXCEPT !.query_features = query_features]]

\* line 408: query_features is a local of the call
set_query_features(cs, c, query_features) ==
    [cs EXCEPT ![c].query_features = query_features]

\* lines 427-428: the lists are locals of the call
append_similarity(cs, c, similarity, details) ==
    [cs EXCEPT ![c].similarities = Append(@, similarity),
               ![c].similarity_details = Append(@, details)]

\* lines 394-405: the availability check
Begin(c, image_data) ==
    /\ ai_service.some
    /\ calls[c].pc = "Idle"
    /\ LET self == ai_service.val
           fb == fallback_analysis("", spare_parts_data)
       IN  IF ~self.stored_features.some \/ ~self.mapping.some
           THEN calls' = [calls EXCEPT ![c].pc = "Done",
                                       ![c].image_data = image_data,
                                       ![c].outcome = Returned(fb.matches),
                                       ![c].invoked = fb.invoked]
           ELSE calls' = [calls EXCEPT ![c].pc = "Extracting",
                                       ![c].image_data = image_data]
    /\ UNCHANGED <<Files, Apart, ai_service, ai_available>>

\* lines 407-413: the embedding of the query image
Extract(c) ==
    /\ calls[c].pc = "Extracting"
    /\ LET query_features == get_clip_features_from_bytes(CLIP_AVAILABLE, calls[c].image_data)
           fb == fallback_analysis("", spare_parts_data)
       IN  IF ~query_features.some
           THEN calls' = [calls EXCEPT ![c].pc = "Done",
                                       ![c].outcome = Returned(fb.matches),
                                       ![c].invoked = {"get_clip_features_from_bytes"}
                                                      \cup fb.invoked]
           ELSE calls' = [set_query_features(calls, c, query_features)
                             EXCEPT ![c].pc = "Scanning",
                                    ![c].i = 1,
                                    ![c].invoked = {"get_clip_features_from_bytes"}]
    /\ UNCHANGED <<Files, Apart, ai_service, ai_available>>

\* lines 418-431: one iteration of the scan loop
ScanStep(c) ==
    /\ calls[c].pc = "Scanning"
    /\ calls[c].i <= Len(ai_service.val.stored_features.val)
    /\ LET self == ai_service.val
           i == calls[c].i
           stored_feature == self.stored_features.val[i]
           e == ScanEntry(calls[c].query_features.val, stored_feature, i, self.mapping.val)
           appended == IF e.appended
                       THEN append_similarity(calls, c, e.similarity, e.details)
                       ELSE calls
           ran == IF e.appended THEN {"compute_clip_similarity_detailed"} ELSE {}
       IN  /\ ai_service' = Some(self_after_line_420(self, stored_feature))
           /\ calls' = IF e.error # ""
                       THEN [appended EXCEPT ![c].pc = "Raised",
                                             ![c].outcome = Raised(e.error),
                                             ![c].invoked = @ \cup ran]
                       ELSE [appended EXCEPT ![c].i = i + 1,
                                             ![c].invoked = @ \cup ran]
    /\ UNCHANGED <<Files, Apart, ai_available>>

\* the loop of line 418 is exhausted
ScanEnd(c) ==
    /\ calls[c].pc = "Scanning"
    /\ calls[c].i > Len(ai_service.val.stored_features.val)
    /\ calls' = [calls EXCEPT ![c].pc = "Ranking"]
    /\ UNCHANGED <<Files, Apart, ai_service, ai_available>>

\* lines 433-467: threshold, sort, report
Rank(c) ==
    /\ calls[c].pc = "Ranking"
    /\ calls' = [calls EXCEPT
                   ![c].pc = "Done",
                   ![c].outcome = Returned(Ranking(calls[c].similarities,
                                                   calls[c].similarity_details,
                                                   ai_service.val.mapping.val))]
    /\ UNCHANGED <<Files, Apart, ai_service, ai_available>>

\* the caller takes the list (or the exception); the slot is free again
Return(c) ==
    /\ calls[c].pc \in {"Done", "Raised"}
    /\ calls' = [calls EXCEPT ![c] = IdleCall]
    /\ UNCHANGED <<Files, Apart, ai_service, ai_available>>

Next ==
    \/ Construct
    \/ health_check
    \/ \E c \in Calls, image_data \in Images : Begin(c, image_data)
    \/ \E c \in Calls : Extract(c)
    \/ \E c \in Calls : ScanStep(c)
    \/ \E c \in Calls : ScanEnd(c)
    \/ \E c \in Calls : Rank(c)
    \/ \E c \in Calls : Return(c)

Spec == Init /\ [][Next]_vars

----------------------------------------------------------------------------
(* Embedding comparator on its own: compute_clip_similarity *)

\* embeddings handed to the comparator: vectors of norm 5 and of norm 10
\* (a stored vector need not be normalized), one of another dimension
Embeddings == {<<5, 0>>, <<4, 3>>, <<3, 4>>, <<0, 5>>, <<-5, 0>>, <<-3, 4>>,
               <<6, 8>>, <<10, 0>>, <<5, 0, 0>>}

\* compute_clip_similarity: 0.0 for a None argument or a caught exception
\* (embeddings of different dimension), else (cosine + 1) / 2
compute_clip_similarity(query_features, stored_features) ==
    IF ~query_features.some \/ ~stored_features.some THEN 0
    ELSE IF Len(query_features.val) # Len(stored_features.val) THEN 0
    ELSE (cosine_similarity(query_features.val, stored_features.val) + 1000) \div 2

InitIdle ==
    /\ CLIP_AVAILABLE = TRUE
    /\ EMBEDDINGS_FILE = UnreadableFile
    /\ MAPPING_FILE = UnreadableFile
    /\ ai_service = None
    /\ ai_available = FALSE
    /\ calls = [c \in Calls |-> IdleCall]
    /\ IMAGES_ROOT = <<>>
    /\ last_build = NoBuild
    /\ comparator = NoCall
    /\ scorer = NoCall
    /\ extractor = NoCall
    /\ spare_parts = SampleTable
    /\ UPLOAD_DIR = NoUploads
    /\ requests = [r \in Calls |-> IdleRequest]
    /\ last_call = NoCall

Service == <<Files, ai_service, ai_available, calls>>

\* compute_clip_similarity(a, b) is called
Compare(a, b) ==
    /\ comparator.pc = "Idle"
    /\ comparator' = [pc |-> "First", a |-> a, b |-> b,
                      forth |-> compute_clip_similarity(a, b), back |-> 0]
    /\ UNCHANGED <<Service, Disk, Web, scorer, extractor>>

\* compute_clip_similarity(b, a) is called with the arguments of the last call
CompareBack ==
    /\ comparator.pc = "First"
    /\ comparator' = [comparator EXCEPT
                        !.pc = "Both",
                        !.back = compute_clip_similarity(comparator.b, comparator.a)]
    /\ UNCHANGED <<Service, Disk, Web, scorer, extractor>>

\* the caller drops the results
CompareReset ==
    /\ comparator.pc = "Both"
    /\ comparator' = NoCall
    /\ UNCHANGED <<Service, Disk, Web, scorer, extractor>>

NextComparator ==
    \/ \E a, b \in {None} \cup {Some(v) : v \in Embeddings} : Compare(a, b)
    \/ CompareBack
    \/ CompareReset

SpecComparator == InitIdle /\ [][NextComparator]_vars

----------------------------------------------------------------------------
(* Descriptor matcher and local similarity scorer:                          *)
(* compute_image_similarity and compute_image_similarity_detailed           *)
(*                                                                          *)
(* A score is 0.0 (kind "zero"), or the float 1 / (1 + exp(-8 (r - 0.15)))  *)
(* of a ratio r = num / den.  In IEEE double 1 + exp(-x) is 1 as soon as    *)
(* exp(-x) <= 2^-53, that is x >= 36.7368, r >= 4.7421: the score is then   *)
(* exactly 1.0 (kind "one").  Below that the score is kept as the exact     *)
(* sigmoid of r (kind "sigmoid"), strictly between 0 and 1.                 *)

\* largest number of keypoints of an image
MaxKeypoints == 12

ZeroScore == [kind |-> "zero", num |-> 0, den |-> 1]

\* a sigmoid without the rounding of floating point
sigmoid_exact(num, den) == [kind |-> "sigmoid", num |-> num, den |-> den]

\* a sigmoid that is rounded to 1 as soon as the ratio reaches 1
sigmoid_coarse(num, den) ==
    IF num >= den
    THEN [kind |-> "one", num |-> num, den |-> den]
    ELSE [kind |-> "sigmoid", num |-> num, den |-> den]

\* 1 / (1 + np.exp(-8 * (num/den - 0.15))) in double precision
sigmoid(num, den) ==
    IF 10000 * num >= 47421 * den
    THEN [kind |-> "one", num |-> num, den |-> den]
    ELSE [kind |-> "sigmoid", num |-> num, den |-> den]

\* the result lists knnMatch(k=2) gives for one query descriptor: distances
\* of the best and the second best neighbour, or of one neighbour only
PairKinds == {<<6, 10>>, <<7, 10>>, <<8, 10>>, <<5>>}

\* a ratio test that accepts equality
ratio_test_not_strict(match_pair, ratio_tenths) ==
    /\ Len(match_pair) = 2
    /\ 10 * match_pair[1] <= ratio_tenths * match_pair[2]

\* Lowe's ratio test: len(match_pair) == 2 and m.distance < ratio * n.distance
ratio_test(match_pair, ratio_tenths) ==
    /\ Len(match_pair) = 2
    /\ 10 * match_pair[1] < ratio_tenths * match_pair[2]

\* the loop over matches: the positions of the accepted correspondences
RECURSIVE good_matches_upto(_, _, _)
good_matches_upto(matches, ratio_tenths, n) ==
    IF n = 0 THEN <<>>
    ELSE LET before == good_matches_upto(matches, ratio_tenths, n - 1)
         IN  IF ratio_test(matches[n], ratio_tenths) THEN Append(before, n) ELSE before

Min(a, b) == IF a <= b THEN a ELSE b
Max(a, b) == IF a >= b THEN a ELSE b

\* the arguments of a scoring call: keypoint lists (by their length),
\* descriptor arrays (None, or by their number of rows), and what
\* flann.knnMatch does on the two arrays
ScorerArgs(q, s, raises, matches) ==
    [query_keypoints |-> IF q.some THEN q.val ELSE 0,
     query_descriptors |-> q,
     stored_keypoints |-> IF s.some THEN s.val ELSE 0,
     stored_descriptors |-> s,
     knn_raises |-> raises,
     matches |-> matches]

\* a scorer that blends good/smaller and good/larger
compute_image_similarity_blended(args) ==
    IF ~args.query_descriptors.some \/ ~args.stored_descriptors.some
    THEN [similarity |-> ZeroScore, good_matches |-> <<>>]
    ELSE IF args.knn_raises
    THEN [similarity |-> ZeroScore, good_matches |-> <<>>]
    ELSE LET good_matches == good_matches_upto(args.matches, 8, Len(args.matches))
             smaller == Min(args.query_keypoints, args.stored_keypoints)
             larger == Max(args.query_keypoints, args.stored_keypoints)
         IN  IF smaller = 0
             THEN [similarity |-> ZeroScore, good_matches |-> good_matches]
             ELSE [similarity |-> sigmoid(Len(good_matches) * (7 * larger + 3 * smaller),
                                          10 * smaller * larger),
                   good_matches |-> good_matches]

\* compute_image_similarity (ratio 0.8): sigmoid of good / min_keypoints
compute_image_similarity(args) ==
    IF ~args.query_descriptors.some \/ ~args.stored_descriptors.some
    THEN [similarity |-> ZeroScore, good_matches |-> <<>>]
    ELSE IF args.knn_raises
    THEN [similarity |-> ZeroScore, good_matches |-> <<>>]
    ELSE LET good_matches == good_matches_upto(args.matches, 8, Len(args.matches))
             min_keypoints == Min(args.query_keypoints, args.stored_keypoints)
         IN  IF min_keypoints = 0
             THEN [similarity |-> ZeroScore, good_matches |-> good_matches]
             ELSE [similarity |-> sigmoid(Len(good_matches), min_keypoints),
                   good_matches |-> good_matches]

\* a detailed scorer without the min_keypoints == 0 return: the division by
\* zero is caught by the except branch only when the matcher raised
compute_image_similarity_detailed_unguarded(args) ==
    IF ~args.query_descriptors.some \/ ~args.stored_descriptors.some
    THEN [similarity |-> ZeroScore, good_matches |-> <<>>]
    ELSE IF args.knn_raises
    THEN [similarity |-> ZeroScore, good_matches |-> <<>>]
    ELSE LET good_matches == good_matches_upto(args.matches, 7, Len(args.matches))
             smaller_keypoints == Min(args.query_keypoints, args.stored_keypoints)
             larger_keypoints == Max(args.query_keypoints, args.stored_keypoints)
         IN  [similarity |->
                  sigmoid(Len(good_matches) * (7 * larger_keypoints
                                               + 3 * smaller_keypoints),
                          10 * smaller_keypoints * larger_keypoints),
              good_matches |-> good_matches]

\* compute_image_similarity_detailed (ratio 0.7): sigmoid of
\* 0.7 * good / smaller + 0.3 * good / larger
compute_image_similarity_detailed(args) ==
    IF ~args.query_descriptors.some \/ ~args.stored_descriptors.some
    THEN [similarity |-> ZeroScore, good_matches |-> <<>>]
    ELSE IF args.knn_raises
    THEN [similarity |-> ZeroScore, good_matches |-> <<>>]
    ELSE LET good_matches == good_matches_upto(args.matches, 7, Len(args.matches))
             min_keypoints == Min(args.query_keypoints, args.stored_keypoints)
             smaller_keypoints == Min(args.query_keypoints, args.stored_keypoints)
             larger_keypoints == Max(args.query_keypoints, args.stored_keypoints)
         IN  IF min_keypoints = 0
             THEN [similarity |-> ZeroScore, good_matches |-> good_matches]
             ELSE [similarity |->
                       sigmoid(Len(good_matches) * (7 * larger_keypoints
                                                    + 3 * smaller_keypoints),
                               10 * smaller_keypoints * larger_keypoints),
                   good_matches |-> good_matches]

\* a result of knnMatch for n query descriptors: g lists like x, then lists like y
MatchPattern(x, g, y, n) == [i \in 1..n |-> IF i <= g THEN x ELSE y]

\* what flann.knnMatch(query_descriptors, stored_descriptors, k=2) can do:
\* raise, or give one list of neighbours for each query descriptor (no
\* second neighbour when the stored array has one row)
KnnOutcomes(q, s) ==
    {[raises |-> TRUE, matches |-> <<>>]} \cup
    IF q = 0 \/ s = 0 THEN {[raises |-> FALSE, matches |-> <<>>]}
    ELSE LET kinds == IF s = 1 THEN {<<5>>} ELSE PairKinds
         IN  {[raises |-> FALSE, matches |-> MatchPattern(x, g, y, q)] :
                 x \in kinds, y \in kinds, g \in 0..q}

\* query arrays of every size, stored arrays of the sizes that matter: empty,
\* one row, two and three rows, as many rows as the largest query
QueryDescriptors == {None} \cup {Some(n) : n \in 0..MaxKeypoints}
StoredDescriptors == {None} \cup {Some(n) : n \in {0, 1, 2, 3, MaxKeypoints}}

ScorerInputs ==
    UNION {{ScorerArgs(q, s, k.raises, k.matches) :
               k \in IF q.some /\ s.some THEN KnnOutcomes(q.val, s.val)
                     ELSE {[raises |-> FALSE, matches |-> <<>>]}} :
           q \in QueryDescriptors, s \in StoredDescriptors}

NoScore == [similarity |-> ZeroScore, good_matches |-> <<>>]

\* a call of compute_image_similarity
Score(args) ==
    /\ scorer.pc = "Idle"
    /\ scorer' = [pc |-> "Simple", args |-> args,
                  simple |-> compute_image_similarity(args), detailed |-> NoScore,
                  more |-> args, simple_more |-> NoScore, detailed_more |-> NoScore]
    /\ UNCHANGED <<Service, Disk, Web, comparator, extractor>>

\* a call of compute_image_similarity_detailed with the same arguments
ScoreDetailed ==
    /\ scorer.pc = "Simple"
    /\ scorer' = [scorer EXCEPT !.pc = "Both",
                                !.detailed = compute_image_similarity_detailed(scorer.args)]
    /\ UNCHANGED <<Service, Disk, Web, comparator, extractor>>

\* both functions called again on arrays of the same sizes, where the
\* i-th query descriptor (the first or the last) now has a clearly best
\* neighbour
ScoreMore(i) ==
    /\ scorer.pc = "Both"
    /\ ~scorer.args.knn_raises
    /\ scorer.args.stored_keypoints >= 2
    /\ Len(scorer.args.matches) > 0
    /\ i \in {1, Len(scorer.args.matches)}
    /\ LET more == [scorer.args EXCEPT !.matches[i] = <<6, 10>>]
       IN  scorer' = [scorer EXCEPT !.pc = "More", !.more = more,
                          !.simple_more = compute_image_similarity(more),
                          !.detailed_more = compute_image_similarity_detailed(more)]
    /\ UNCHANGED <<Service, Disk, Web, comparator, extractor>>

ScorerReset ==
    /\ scorer.pc \in {"Both", "More"}
    /\ scorer' = NoCall
    /\ UNCHANGED <<Service, Disk, Web, comparator, extractor>>

NextScorer ==
    \/ \E args \in ScorerInputs : Score(args)
    \/ ScoreDetailed
    \/ \E i \in 1..MaxKeypoints : ScoreMore(i)
    \/ ScorerReset

SpecScorer == InitIdle /\ [][NextScorer]_vars

----------------------------------------------------------------------------
(* Keypoint extractor: get_image_features_from_bytes                        *)

\* largest number of keypoints the detector yields
MaxDetected == 1002

\* the strengths a keypoint can have
Responses == 1..3

\* the response of the i-th detected keypoint
Response(pattern, i) ==
    CASE pattern = "flat" -> 2
      [] pattern = "cycle" -> (i % 3) + 1
      [] pattern = "strong_first" -> IF i <= 2 THEN 3 ELSE 1
      [] OTHER -> IF i <= 2 THEN 1 ELSE 3

\* the keypoints of sift.detectAndCompute, in detection order
Detected(n, pattern) == [i \in 1..n |-> [id |-> i, response |-> Response(pattern, i)]]

\* one descriptor row for each keypoint handed to SIFT, in their order
DescriptorsOf(keypoints) == [i \in 1..Len(keypoints) |-> keypoints[i].id]

\* uploaded bytes, by what the decoder and the detector make of them:
\* imdecode gives None or an image, a step of the processing may raise,
\* detectAndCompute gives n keypoints and n descriptor rows (None for none)
ImageBytes(decodes, raises, n, pattern) ==
    [decodes |-> decodes, raises |-> raises,
     keypoints |-> Detected(n, pattern),
     descriptors |-> IF n = 0 THEN None ELSE Some(DescriptorsOf(Detected(n, pattern)))]

DetectedCounts == 0..MaxKeypoints \cup 997..MaxDetected

Uploads ==
    {ImageBytes(FALSE, FALSE, 0, "flat"), ImageBytes(TRUE, TRUE, 0, "flat")}
    \cup {ImageBytes(TRUE, FALSE, n, pattern) :
             n \in DetectedCounts,
             pattern \in {"flat", "cycle", "strong_first", "weak_first"}}
    \cup {[ImageBytes(TRUE, FALSE, n, pattern) EXCEPT !.descriptors = None] :
             n \in DetectedCounts, pattern \in {"flat", "cycle"}}

\* keypoints_with_responses.sort(key=response, reverse=True): the strongest
\* first, keypoints of one response in their order
RECURSIVE strongest_first_from(_, _)
strongest_first_from(keypoints, response) ==
    IF response \notin Responses THEN <<>>
    ELSE SelectSeq(keypoints, LAMBDA kp : kp.response = response)
         \o strongest_first_from(keypoints, response - 1)

\* a threshold that also rejects 10 keypoints
insufficient_inclusive(keypoints, descriptors) ==
    ~descriptors.some \/ Len(keypoints) <= 10

\* descriptors is None or len(keypoints) < 10
insufficient(keypoints, descriptors) ==
    ~descriptors.some \/ Len(keypoints) < 10

\* a filter that keeps the first 1000 keypoints detected
filter_first_detected(keypoints, descriptors) ==
    IF Len(keypoints) > 1000
    THEN LET filtered_keypoints == SubSeq(keypoints, 1, 1000)
         IN  [keypoints |-> filtered_keypoints,
              descriptors |-> DescriptorsOf(filtered_keypoints)]
    ELSE [keypoints |-> keypoints, descriptors |-> descriptors]

\* a filter that keeps the descriptors of the detection
filter_strongest_stale(keypoints, descriptors) ==
    IF Len(keypoints) > 1000
    THEN [keypoints |-> SubSeq(strongest_first_from(keypoints, 3), 1, 1000),
          descriptors |-> descriptors]
    ELSE [keypoints |-> keypoints, descriptors |-> descriptors]

\* if len(keypoints) > 1000: keep the 1000 strongest and recompute their
\* descriptors
filter_strongest(keypoints, descriptors) ==
    IF Len(keypoints) > 1000
    THEN LET filtered_keypoints == SubSeq(strongest_first_from(keypoints, 3), 1, 1000)
         IN  [keypoints |-> filtered_keypoints,
              descriptors |-> DescriptorsOf(filtered_keypoints)]
    ELSE [keypoints |-> keypoints, descriptors |-> descriptors]

NoFeatures == [keypoints |-> None, descriptors |-> None]

get_image_features_from_bytes(image_bytes) ==
    IF image_bytes.raises THEN NoFeatures
    ELSE IF ~image_bytes.decodes THEN NoFeatures
    ELSE IF insufficient(image_bytes.keypoints, image_bytes.descriptors) THEN NoFeatures
    ELSE LET kept == filter_strongest(image_bytes.keypoints, image_bytes.descriptors.val)
         IN  [keypoints |-> Some(kept.keypoints), descriptors |-> Some(kept.descriptors)]

\* a call of get_image_features_from_bytes
ExtractFeatures(image_bytes) ==
    /\ extractor.pc = "Idle"
    /\ extractor' = [pc |-> "Done", image_bytes |-> image_bytes,
                     features |-> get_image_features_from_bytes(image_bytes)]
    /\ UNCHANGED <<Service, Disk, Web, comparator, scorer>>

ExtractorReset ==
    /\ extractor.pc = "Done"
    /\ extractor' = NoCall
    /\ UNCHANGED <<Service, Disk, Web, comparator, scorer>>

NextExtractor ==
    \/ \E image_bytes \in Uploads : ExtractFeatures(image_bytes)
    \/ ExtractorReset

SpecExtractor == InitIdle /\ [][NextExtractor]_vars

----------------------------------------------------------------------------
(* Corpus builders: compute_clip_embeddings, regenerate_features and        *)
(* compute_image_embeddings.main                                            *)

\* largest number of files under the images directory
MaxImages == 2

\* a path relative to the images directory: directory, base name without
\* extension, extension
RelPath(dir, stem, ext) == [dir |-> dir, stem |-> stem, ext |-> ext]

RelPaths == {RelPath("6", "IMG_3701", ".jpg"), RelPath("5", "IMG_3701", ".png"),
             RelPath("5", "IMG_3702", ".jpg"), RelPath("5", "notes", ".txt")}

\* the images directory: its files in the order os.walk lists them
Directories ==
    {d \in SeqsUpTo([rel_path : RelPaths, content : Images], MaxImages) :
        \A i, j \in 1..Len(d) : d[i].rel_path = d[j].rel_path => i = j}

\* file.lower().endswith(('.png', '.jpg', '.jpeg'))
is_image_file(file) == file.rel_path.ext \in {".png", ".jpg", ".jpeg"}

\* the os.walk loop
image_files(images_root) == SelectSeq(images_root, is_image_file)

\* os.path.splitext(os.path.basename(rel_path))[0]
material_number_of(rel_path) == rel_path.stem

\* f"images/{rel_path}"
image_path_of(rel_path) == [root |-> "images", rel_path |-> rel_path]

\* the mapping element of the image just appended to features_list
mapping_entry(features_list, rel_path) ==
    [part_id |-> Len(features_list),
     material_number |-> material_number_of(rel_path),
     description |-> <<"Part", material_number_of(rel_path)>>,
     image_path |-> image_path_of(rel_path),
     feature_index |-> Len(features_list) - 1]

\* the loop of compute_clip_embeddings over the first n image files
RECURSIVE clip_loop(_, _)
clip_loop(files, n) ==
    IF n = 0 THEN [features_list |-> <<>>, mapping |-> <<>>]
    ELSE LET before == clip_loop(files, n - 1)
             image_features == get_clip_features_from_bytes(TRUE, files[n].content)
         IN  IF ~image_features.some THEN before
             ELSE LET features_list == Append(before.features_list,
                                              ClipRecord(image_features.val))
                  IN  [features_list |-> features_list,
                       mapping |-> Append(before.mapping,
                                          mapping_entry(features_list, files[n].rel_path))]

\* get_image_features of the builders: (None, None) for a file cv2 cannot read
get_image_features(content) == IF content = "img_corrupt" THEN None ELSE Some(SiftRecord)

\* the loop of regenerate_features over the first n image files
RECURSIVE sift_loop(_, _)
sift_loop(files, n) ==
    IF n = 0 THEN [features_list |-> <<>>, mapping |-> <<>>]
    ELSE LET before == sift_loop(files, n - 1)
             features == get_image_features(files[n].content)
         IN  IF ~features.some THEN before
             ELSE LET features_list == Append(before.features_list, features.val)
                  IN  [features_list |-> features_list,
                       mapping |-> Append(before.mapping,
                                          mapping_entry(features_list, files[n].rel_path))]

\* the parts with an image in the database, backend/sample_data.py
parts_with_images ==
    <<[id |-> 5, material_number |-> "SP005", description |-> <<"Sample", "SP005">>,
       image_path |-> image_path_of(RelPath("5", "IMG_3702", ".jpg"))],
      [id |-> 6, material_number |-> "SP006", description |-> <<"Sample", "SP006">>,
       image_path |-> image_path_of(RelPath("6", "IMG_3701", ".jpg"))]>>

\* the files of the images directory at a path
FilesAt(images_root, rel_path) ==
    SelectSeq(images_root, LAMBDA file : file.rel_path = rel_path)

\* the loop of compute_image_embeddings.main over the first n parts
RECURSIVE parts_loop(_, _, _)
parts_loop(images_root, parts, n) ==
    IF n = 0 THEN [features_list |-> <<>>, mapping |-> <<>>]
    ELSE LET before == parts_loop(images_root, parts, n - 1)
             part == parts[n]
             found == FilesAt(images_root, part.image_path.rel_path)
         IN  IF found = <<>> THEN before
             ELSE IF ~get_image_features(found[1].content).some THEN before
             ELSE LET features_list == Append(before.features_list,
                                              get_image_features(found[1].content).val)
                  IN  [features_list |-> features_list,
                       mapping |-> Append(before.mapping,
                                          [part_id |-> part.id,
                                           material_number |-> part.material_number,
                                           description |-> part.description,
                                           image_path |-> part.image_path,
                                           feature_index |-> Len(features_list) - 1])]

Build(by, run, written) == [by |-> by, images |-> Len(run.features_list), written |-> written]

\* a run of compute_clip_embeddings; loads: from_pretrained succeeds
compute_clip_embeddings(loads) ==
    /\ LET files == image_files(IMAGES_ROOT)
           run == clip_loop(files, Len(files))
       IN  IF loads /\ run.features_list # <<>>
           THEN /\ EMBEDDINGS_FILE' = ReadableFile(run.features_list)
                /\ MAPPING_FILE' = ReadableFile(run.mapping)
                /\ last_build' = Build("compute_clip_embeddings", run, TRUE)
           ELSE /\ UNCHANGED <<EMBEDDINGS_FILE, MAPPING_FILE>>
                /\ last_build' = [by |-> "compute_clip_embeddings", images |-> 0,
                                  written |-> FALSE]
    /\ UNCHANGED <<CLIP_AVAILABLE, IMAGES_ROOT, ai_service, ai_available, calls, Bench, Web>>

\* a run of regenerate_features
regenerate_features ==
    /\ LET files == image_files(IMAGES_ROOT)
           run == sift_loop(files, Len(files))
       IN  IF run.features_list # <<>>
           THEN /\ EMBEDDINGS_FILE' = ReadableFile(run.features_list)
                /\ MAPPING_FILE' = ReadableFile(run.mapping)
                /\ last_build' = Build("regenerate_features", run, TRUE)
           ELSE /\ UNCHANGED <<EMBEDDINGS_FILE, MAPPING_FILE>>
                /\ last_build' = Build("regenerate_features", run, FALSE)
    /\ UNCHANGED <<CLIP_AVAILABLE, IMAGES_ROOT, ai_service, ai_available, calls, Bench, Web>>

\* a run of compute_image_embeddings.main.  Its records hold cv2.KeyPoint
\* objects; pickles: np.save can pickle them.  When it cannot, np.save has
\* opened and truncated the archive, raises, and the mapping is not written.
compute_image_embeddings(pickles) ==
    /\ LET run == parts_loop(IMAGES_ROOT, parts_with_images, Len(parts_with_images))
       IN  IF run.features_list = <<>>
           THEN /\ UNCHANGED <<EMBEDDINGS_FILE, MAPPING_FILE>>
                /\ last_build' = Build("compute_image_embeddings", run, FALSE)
           ELSE IF pickles
           THEN /\ EMBEDDINGS_FILE' = ReadableFile(run.features_list)
                /\ MAPPING_FILE' = ReadableFile(run.mapping)
                /\ last_build' = Build("compute_image_embeddings", run, TRUE)
           ELSE /\ EMBEDDINGS_FILE' = UnreadableFile
                /\ UNCHANGED MAPPING_FILE
                /\ last_build' = Build("compute_image_embeddings", run, FALSE)
    /\ UNCHANGED <<CLIP_AVAILABLE, IMAGES_ROOT, ai_service, ai_available, calls, Bench, Web>>

InitBuilder ==
    /\ CLIP_AVAILABLE = TRUE
    /\ EMBEDDINGS_FILE = UnreadableFile
    /\ MAPPING_FILE = UnreadableFile
    /\ ai_service = None
    /\ ai_available = FALSE
    /\ calls = [c \in Calls |-> IdleCall]
    /\ IMAGES_ROOT \in Directories
    /\ last_build = NoBuild
    /\ comparator = NoCall
    /\ scorer = NoCall
    /\ extractor = NoCall
    /\ spare_parts = SampleTable
    /\ UPLOAD_DIR = NoUploads
    /\ requests = [r \in Calls |-> IdleRequest]
    /\ last_call = NoCall

NextBuilder ==
    \/ \E loads \in BOOLEAN : compute_clip_embeddings(loads)
    \/ regenerate_features
    \/ \E pickles \in BOOLEAN : compute_image_embeddings(pickles)

SpecBuilder == InitBuilder /\ [][NextBuilder]_vars

----------------------------------------------------------------------------
(* The service on a corpus built from the images of the sample catalog *)

\* the images directory of the sample data: the reference images of SP005
\* and SP006, in either listing order
CatalogDirectories ==
    {d \in Directories :
        /\ Len(d) = 2
        /\ \E i \in 1..2 : d[i] = [rel_path |-> RelPath("5", "IMG_3702", ".jpg"),
                                   content |-> "img_B"]
        /\ \E i \in 1..2 : d[i] = [rel_path |-> RelPath("6", "IMG_3701", ".jpg"),
                                   content |-> "img_A"]}

InitCatalog ==
    /\ CLIP_AVAILABLE = TRUE
    /\ EMBEDDINGS_FILE = UnreadableFile
    /\ MAPPING_FILE = UnreadableFile
    /\ ai_service = None
    /\ ai_available = FALSE
    /\ calls = [c \in Calls |-> IdleCall]
    /\ IMAGES_ROOT \in CatalogDirectories
    /\ last_build = NoBuild
    /\ comparator = NoCall
    /\ scorer = NoCall
    /\ extractor = NoCall
    /\ spare_parts = SampleTable
    /\ UPLOAD_DIR = NoUploads
    /\ requests = [r \in Calls |-> IdleRequest]
    /\ last_call = NoCall

NextCatalog ==
    \/ \E loads \in BOOLEAN : compute_clip_embeddings(loads)
    \/ Construct
    \/ \E c \in Calls, image_data \in Images : Begin(c, image_data)
    \/ \E c \in Calls : Extract(c)
    \/ \E c \in Calls : ScanStep(c)
    \/ \E c \in Calls : ScanEnd(c)
    \/ \E c \in Calls : Rank(c)
    \/ \E c \in Calls : Return(c)

SpecCatalog == InitCatalog /\ [][NextCatalog]_vars

----------------------------------------------------------------------------
(* Web layer: upload_image (main.py)                                        *)

\* an uploaded file: name, content type and bytes
UploadedFiles ==
    [filename : Filenames, content_type : {"image/jpeg"}, bytes : Images]
    \cup [filename : Filenames, content_type : {"text/plain"}, bytes : {"img_corrupt"}]

\* lines 139-144: the first three parts, with confidence 0.3, 0.2, 0.1
low_confidence_parts(spare_parts_rows) ==
    [i \in 1..Min(3, Len(spare_parts_rows)) |->
        [material_number |-> spare_parts_rows[i].material_number,
         confidence_score |-> 300 - (i - 1) * 100]]

\* lines 133-144: the matches of the engine, or the low-confidence list
\* when there is no service or ai_available is False
ai_matches_of(service, available, clip_loaded, image_data, spare_parts_rows) ==
    IF service.some /\ available
    THEN analyze_image(service.val, clip_loaded, image_data)
    ELSE Returned(low_confidence_parts(spare_parts_rows))

\* a lookup that never finds a row
find_part_missing(spare_parts_rows, material_number) == None

\* a lookup that answers with a row for any material number
find_part_unchecked(spare_parts_rows, material_number) ==
    Some([id |-> 0, material_number |-> material_number, category |-> ""])

\* db.query(SparePart).filter(material_number == ...).first()
find_part(spare_parts_rows, material_number) ==
    LET found == SelectSeq(spare_parts_rows,
                           LAMBDA row : row.material_number = material_number)
    IN  IF found = <<>> THEN None ELSE Some(found[1])

\* lines 146-161: the matches that have a row, each with its row
RECURSIVE search_results_upto(_, _, _)
search_results_upto(ai_matches, spare_parts_rows, n) ==
    IF n = 0 THEN <<>>
    ELSE LET before == search_results_upto(ai_matches, spare_parts_rows, n - 1)
             spare_part == find_part(spare_parts_rows, ai_matches[n].material_number)
         IN  IF spare_part.some
             THEN Append(before, [spare_part |-> spare_part.val,
                                  confidence_score |-> ai_matches[n].confidence_score])
             ELSE before

\* lines 146-164: convert, then sort by confidence, highest first
search_results_of(ai_matches, spare_parts_rows) ==
    LET found == search_results_upto(ai_matches, spare_parts_rows, Len(ai_matches))
    IN  sort_by_confidence(found, Len(found))

\* a clean-up that leaves the saved file
keep_upload(upload_dir, file_path) == upload_dir

\* lines 174-175: if os.path.exists(file_path): os.remove(file_path)
remove_upload(upload_dir, file_path) == [upload_dir EXCEPT ![file_path] = "absent"]

\* handlers run in worker threads: a request starts whatever the others do
loop_free_threaded(reqs, r) == TRUE

\* upload_image is a coroutine without await: the event loop runs its body
\* from the first line to the response before it starts another request
loop_free(reqs, r) ==
    \A other \in Calls \ {r} : reqs[other].pc \notin {"Saved", "Read"}

NoResponse == [status |-> 0, search_results |-> <<>>]

\* lines 102-112: content type check, then the file is saved
Save(r, file, timestamp) ==
    /\ ai_service.some
    /\ requests[r].pc = "Idle"
    /\ loop_free(requests, r)
    /\ LET file_path == [timestamp |-> timestamp, filename |-> file.filename]
       IN  IF file.content_type # "image/jpeg"
           THEN /\ requests' = [requests EXCEPT ![r] =
                                   [pc |-> "Done", file |-> file, file_path |-> file_path,
                                    image_data |-> "", ai_matches |-> Returned(<<>>),
                                    response |-> [status |-> 400, search_results |-> <<>>]]]
                /\ UNCHANGED UPLOAD_DIR
           ELSE /\ UPLOAD_DIR' = [UPLOAD_DIR EXCEPT ![file_path] = file.bytes]
                /\ requests' = [requests EXCEPT ![r] =
                                   [pc |-> "Saved", file |-> file, file_path |-> file_path,
                                    image_data |-> "", ai_matches |-> Returned(<<>>),
                                    response |-> NoResponse]]
    /\ UNCHANGED <<Service, Disk, Bench, spare_parts, last_call>>

\* lines 114-117: the saved file is read back (open raises when it is gone)
ReadBack(r) ==
    /\ requests[r].pc = "Saved"
    /\ LET image_data == UPLOAD_DIR[requests[r].file_path]
       IN  IF image_data = "absent"
           THEN requests' = [requests EXCEPT
                                ![r].pc = "Done",
                                ![r].ai_matches = Raised("FileNotFoundError"),
                                ![r].response = [status |-> 500, search_results |-> <<>>]]
           ELSE requests' = [requests EXCEPT ![r].pc = "Read",
                                             ![r].image_data = image_data]
    /\ UNCHANGED <<Service, Disk, Bench, spare_parts, UPLOAD_DIR, last_call>>

\* lines 119-176: the parts are queried, the image analysed, the matches
\* converted and sorted; an exception removes the saved file and answers 500
Process(r) ==
    /\ requests[r].pc = "Read"
    /\ LET ai_matches == ai_matches_of(ai_service, ai_available, CLIP_AVAILABLE,
                                       requests[r].image_data, spare_parts)
       IN  IF ai_matches.kind = "raised"
           THEN /\ UPLOAD_DIR' = remove_upload(UPLOAD_DIR, requests[r].file_path)
                /\ requests' = [requests EXCEPT
                                   ![r].pc = "Done",
                                   ![r].ai_matches = ai_matches,
                                   ![r].response = [status |-> 500,
                                                    search_results |-> <<>>]]
           ELSE /\ UNCHANGED UPLOAD_DIR
                /\ requests' = [requests EXCEPT
                                   ![r].pc = "Done",
                                   ![r].ai_matches = ai_matches,
                                   ![r].response =
                                       [status |-> 200,
                                        search_results |->
                                            search_results_of(ai_matches.value,
                                                              spare_parts)]]
    /\ UNCHANGED <<Service, Disk, Bench, spare_parts, last_call>>

\* the response is sent; the slot is free again
Respond(r) ==
    /\ requests[r].pc = "Done"
    /\ requests' = [requests EXCEPT ![r] = IdleRequest]
    /\ UNCHANGED <<Service, Disk, Bench, spare_parts, UPLOAD_DIR, last_call>>

\* a table on which add_missing_parts has put the image of SP006
TableWithDetected ==
    Append(SampleTable, [id |-> 4, material_number |-> "IMG_3701",
                         category |-> "AI Detected"])

\* the corpus files the service starts with: none, the embeddings
\* compute_clip_embeddings writes for the sample images, or the keypoint
\* records regenerate_features writes for them
UploadCorpora ==
    {<<UnreadableFile, UnreadableFile>>}
    \cup {<<ReadableFile(run.features_list), ReadableFile(run.mapping)>> :
             run \in {clip_loop(d, Len(d)) : d \in CatalogDirectories}
                     \cup {sift_loop(d, Len(d)) : d \in CatalogDirectories}}

InitUpload ==
    /\ CLIP_AVAILABLE = TRUE
    /\ \E corpus \in UploadCorpora :
          /\ EMBEDDINGS_FILE = corpus[1]
          /\ MAPPING_FILE = corpus[2]
    /\ ai_service = None
    /\ ai_available = FALSE
    /\ calls = [c \in Calls |-> IdleCall]
    /\ IMAGES_ROOT = <<>>
    /\ last_build = NoBuild
    /\ comparator = NoCall
    /\ scorer = NoCall
    /\ extractor = NoCall
    /\ spare_parts \in {SampleTable, TableWithDetected}
    /\ UPLOAD_DIR = NoUploads
    /\ requests = [r \in Calls |-> IdleRequest]
    /\ last_call = NoCall

NextUpload ==
    \/ Construct
    \/ health_check
    \/ \E r \in Calls, file \in UploadedFiles, timestamp \in Timestamps :
          Save(r, file, timestamp)
    \/ \E r \in Calls : ReadBack(r)
    \/ \E r \in Calls : Process(r)
    \/ \E r \in Calls : Respond(r)

SpecUpload == InitUpload /\ [][NextUpload]_vars

----------------------------------------------------------------------------
(* Parts table: create_spare_part (main.py), add_missing_parts              *)

material_numbers(spare_parts_rows) ==
    {spare_parts_rows[k].material_number : k \in 1..Len(spare_parts_rows)}

\* id = Column(Integer, primary_key=True): rows are never deleted, the
\* next rowid is one past the last
new_row(spare_parts_rows, material_number, category) ==
    [id |-> Len(spare_parts_rows) + 1, material_number |-> material_number,
     category |-> category]

\* an INSERT: material_number is unique=True, a second row with a stored
\* number raises IntegrityError
insert_part(spare_parts_rows, material_number, category) ==
    IF material_number \in material_numbers(spare_parts_rows)
    THEN Raised("IntegrityError")
    ELSE Returned(Append(spare_parts_rows,
                         new_row(spare_parts_rows, material_number, category)))

\* the material numbers a client posts
PostedNumbers == {"SP001", "IMG_3701", "SP011"}

\* POST /spare-parts, a coroutine without await: one step of the event loop
create_spare_part(material_number) ==
    /\ LET existing == find_part(spare_parts, material_number)
           added == insert_part(spare_parts, material_number, "Posted")
           answered(status, detail) ==
               last_call' = [pc |-> "create_spare_part",
                             material_number |-> material_number,
                             before |-> spare_parts,
                             status |-> status, detail |-> detail]
       IN  IF existing.some
           THEN /\ answered(400, "Material number already exists")
                /\ UNCHANGED spare_parts
           ELSE IF added.kind = "raised"
           THEN /\ answered(500, added.error)
                /\ UNCHANGED spare_parts
           ELSE /\ answered(200, "")
                /\ spare_parts' = added.value
    /\ UNCHANGED <<Service, Disk, Bench, UPLOAD_DIR, requests>>

\* add_missing_parts lines 31-50 over the first n entries: rows holds the
\* table with the inserts of the open transaction
RECURSIVE add_missing_loop(_, _, _, _)
add_missing_loop(mapping, existing_material_numbers, spare_parts_rows, n) ==
    IF n = 0 THEN [kind |-> "returned", rows |-> spare_parts_rows, added_count |-> 0]
    ELSE LET before == add_missing_loop(mapping, existing_material_numbers,
                                        spare_parts_rows, n - 1)
             entry == mapping[n]
         IN  IF before.kind = "raised" THEN before
             ELSE IF "material_number" \notin DOMAIN entry
             THEN [before EXCEPT !.kind = "raised"]
             ELSE IF entry.material_number \in existing_material_numbers THEN before
             ELSE IF {"description", "image_path"} \ DOMAIN entry # {}
             THEN [before EXCEPT !.kind = "raised"]
             ELSE LET added == insert_part(before.rows, entry.material_number,
                                           "AI Detected")
                  IN  IF added.kind = "raised"
                      THEN [before EXCEPT !.kind = "raised"]
                      ELSE [kind |-> "returned", rows |-> added.value,
                            added_count |-> before.added_count + 1]

\* a transaction that keeps the inserts made before the error
rollback_partial(stored_rows, pending_rows) == pending_rows

\* line 63, conn.rollback(): the table as it was when the script connected
rollback(stored_rows, pending_rows) == stored_rows

\* a run of the script add_missing_parts
add_missing_parts ==
    /\ IF ~MAPPING_FILE.readable
       THEN /\ last_call' = [pc |-> "add_missing_parts", before |-> spare_parts,
                             mapping |-> <<>>, outcome |-> "no mapping",
                             added_count |-> 0]
            /\ UNCHANGED spare_parts
       ELSE LET mapping == MAPPING_FILE.content
                run == add_missing_loop(mapping, material_numbers(spare_parts),
                                        spare_parts, Len(mapping))
            IN  IF run.kind = "raised"
                THEN /\ spare_parts' = rollback(spare_parts, run.rows)
                     /\ last_call' = [pc |-> "add_missing_parts",
                                      before |-> spare_parts, mapping |-> mapping,
                                      outcome |-> "rolled back", added_count |-> 0]
                ELSE /\ spare_parts' = run.rows
                     /\ last_call' = [pc |-> "add_missing_parts",
                                      before |-> spare_parts, mapping |-> mapping,
                                      outcome |-> "committed",
                                      added_count |-> run.added_count]
    /\ UNCHANGED <<Service, Disk, Bench, UPLOAD_DIR, requests>>

\* the metadata files compute_clip_embeddings writes for the images
\* directories, or none
WrittenMappings ==
    {UnreadableFile}
    \cup {ReadableFile(clip_loop(image_files(d), Len(image_files(d))).mapping) :
             d \in Directories}

InitParts ==
    /\ CLIP_AVAILABLE = TRUE
    /\ EMBEDDINGS_FILE = UnreadableFile
    /\ MAPPING_FILE \in WrittenMappings
    /\ ai_service = None
    /\ ai_available = FALSE
    /\ calls = [c \in Calls |-> IdleCall]
    /\ IMAGES_ROOT = <<>>
    /\ last_build = NoBuild
    /\ comparator = NoCall
    /\ scorer = NoCall
    /\ extractor = NoCall
    /\ spare_parts = SampleTable
    /\ UPLOAD_DIR = NoUploads
    /\ requests = [r \in Calls |-> IdleRequest]
    /\ last_call = NoCall

NextParts ==
    \/ \E material_number \in PostedNumbers : create_spare_part(material_number)
    \/ add_missing_parts

SpecParts == InitParts /\ [][NextParts]_vars

----------------------------------------------------------------------------
(* Vocabulary of the properties *)

Constructed == ai_service.some
StoreAvailable == Constructed /\ ai_service.val.stored_features.some
                              /\ ai_service.val.mapping.some
StoreUnavailable == Constructed /\ (~ai_service.val.stored_features.some
                                    \/ ~ai_service.val.mapping.some)
Archive == ai_service.val.stored_features.val
Metadata == ai_service.val.mapping.val

\* the call in slot c has ended, by a return or by an exception
Ended(c) == calls[c].pc \in {"Done", "Raised"}

\* the embedding extractor cannot produce an embedding for this image
ExtractionFails(image_data) == ~CLIP_AVAILABLE \/ image_data = "img_corrupt"

\* (cos(q, e) + 1) / 2 for a record that holds an embedding of q's dimension;
\* 0 for a record the comparator cannot score
EntrySimilarity(q, rec) ==
    IF rec.has_clip /\ Len(rec.clip_features) = Len(q)
    THEN (cosine_similarity(q, rec.clip_features) + 1000) \div 2
    ELSE 0

\* the query embedding of the call in slot c
QueryOf(c) == ClipEncode(calls[c].image_data)

\* the components of the keypoint path
KeypointComponents == {"get_image_features_from_bytes", "compute_image_similarity",
                       "compute_image_similarity_detailed"}

----------------------------------------------------------------------------
(* Properties *)

\* C1: whatever the corpus and the query image, a call hands back at most one
\* match, and every match it hands back has confidence_score >= 0.9.
C1_AtMostOneAboveThreshold ==
    \A c \in Calls :
        Ended(c) =>
            /\ Len(calls[c].outcome.value) <= 1
            /\ \A k \in 1..Len(calls[c].outcome.value) :
                   calls[c].outcome.value[k].confidence_score >= 900

\* C1 witness: a call returned one match although two entries of the corpus
\* score at or above 0.9.
C1_Witness ==
    \E c \in Calls :
        /\ calls[c].pc = "Done"
        /\ Len(calls[c].outcome.value) = 1
        /\ Len(calls[c].similarities) = 2
        /\ calls[c].similarities[1] >= 900
        /\ calls[c].similarities[2] >= 900

\* C2: with the corpus store unavailable every call returns the empty list,
\* whatever the image.
C2_UnavailableReturnsEmpty ==
    StoreUnavailable =>
        \A c \in Calls :
            calls[c].pc # "Idle" =>
                calls[c].pc = "Done" /\ calls[c].outcome = Returned(<<>>)

\* C2 witness: a call on a decodable image, with the CLIP model loaded, has
\* returned while the store is unavailable.
C2_Witness ==
    /\ StoreUnavailable
    /\ CLIP_AVAILABLE
    /\ \E c \in Calls : calls[c].pc = "Done" /\ calls[c].image_data = "img_A"

\* C3: when no embedding can be extracted from the query image (undecodable
\* image, or CLIP model not loaded), the call returns the empty list, does
\* not raise, and runs no component of the keypoint path.
C3_ExtractionFailureReturnsEmpty ==
    StoreAvailable =>
        \A c \in Calls :
            (calls[c].pc \notin {"Idle", "Extracting"}
             /\ ExtractionFails(calls[c].image_data)) =>
                /\ calls[c].pc = "Done"
                /\ calls[c].outcome = Returned(<<>>)
                /\ calls[c].invoked \cap KeypointComponents = {}

\* C3 witness: the store holds entries, the CLIP model did not load, and a call
\* on a decodable image has returned.
C3_Witness ==
    /\ StoreAvailable
    /\ Len(Archive) > 0
    /\ ~CLIP_AVAILABLE
    /\ \E c \in Calls : calls[c].pc = "Done" /\ calls[c].image_data = "img_B"

\* C4: a failure while comparing the query against one corpus entry counts as
\* score 0 for that entry and does not end the call: the scan goes on.
C4_EntryFailureDoesNotAbort ==
    StoreAvailable =>
        \A c \in Calls :
            \A j \in 1..Len(calls[c].similarities) :
                (Archive[j].has_clip
                 /\ Len(Archive[j].clip_features) # Len(calls[c].query_features.val)) =>
                    /\ calls[c].similarities[j] = 0
                    /\ calls[c].pc # "Raised"

\* C5: with an available corpus and an extracted query embedding, a call
\* returns a non-empty list if and only if some corpus entry has
\* similarity >= 0.9.
C5_NonEmptyIffAboveThreshold ==
    StoreAvailable =>
        \A c \in Calls :
            (Ended(c) /\ ~ExtractionFails(calls[c].image_data)) =>
                ((calls[c].outcome.kind = "returned" /\ calls[c].outcome.value # <<>>)
                 <=> \E j \in 1..Len(Archive) :
                        EntrySimilarity(QueryOf(c), Archive[j]) >= 900)

\* C6: the match a call reports is the entry of highest similarity, named by
\* the metadata element at the same position; of several entries tied at the
\* highest similarity the earliest is reported.
C6_BestEntryEarliestOnTie ==
    StoreAvailable =>
        \A c \in Calls :
            (calls[c].pc = "Done" /\ calls[c].outcome.value # <<>>) =>
                \E j \in 1..Len(Archive) :
                    /\ calls[c].outcome.value[1].material_number
                           = Metadata[j].material_number
                    /\ calls[c].outcome.value[1].confidence_score
                           = EntrySimilarity(QueryOf(c), Archive[j])
                    /\ \A k \in 1..Len(Archive) :
                           EntrySimilarity(QueryOf(c), Archive[k])
                               <= EntrySimilarity(QueryOf(c), Archive[j])
                    /\ \A k \in 1..(j - 1) :
                           EntrySimilarity(QueryOf(c), Archive[k])
                               < EntrySimilarity(QueryOf(c), Archive[j])

\* C6 witness: two entries tie at the highest similarity and a call has
\* reported the first of them.
C6_Witness ==
    /\ StoreAvailable
    /\ \E c \in Calls :
        /\ calls[c].pc = "Done"
        /\ Len(Archive) = 2
        /\ EntrySimilarity(QueryOf(c), Archive[1]) = EntrySimilarity(QueryOf(c), Archive[2])
        /\ calls[c].outcome.value # <<>>
        /\ calls[c].outcome.value[1].material_number = Metadata[1].material_number

\* C7: a call never raises, whatever the loaded corpus and the input.
C7_NeverRaises ==
    \A c \in Calls : calls[c].pc # "Raised"

\* C8: after construction the store is fully loaded (both files readable) or
\* Unavailable with both fields None (as soon as one file is unreadable), and
\* no step makes an Unavailable store available.
C8_LoadedOrUnavailableForGood ==
    /\ [](Constructed =>
            \/ /\ EMBEDDINGS_FILE.readable /\ MAPPING_FILE.readable
               /\ ai_service.val.stored_features.some
               /\ ai_service.val.mapping.some
            \/ /\ ~(EMBEDDINGS_FILE.readable /\ MAPPING_FILE.readable)
               /\ ~ai_service.val.stored_features.some
               /\ ~ai_service.val.mapping.some)
    /\ [][StoreUnavailable => StoreUnavailable']_vars

\* C8 witness: only the metadata file was unreadable, the store is Unavailable,
\* health_check has run and a call has returned.
C8_Witness ==
    /\ StoreUnavailable
    /\ EMBEDDINGS_FILE.readable
    /\ ~MAPPING_FILE.readable
    /\ ~ai_available
    /\ \E c \in Calls : calls[c].pc = "Done"

\* C9: no step after construction changes stored_features or mapping, and two
\* calls with the same query image end with the same result.
C9_StoreUntouchedSameAnswer ==
    /\ [][Constructed => ai_service' = ai_service]_vars
    /\ [](\A c1, c2 \in Calls :
            (Ended(c1) /\ Ended(c2) /\ calls[c1].image_data = calls[c2].image_data)
                => calls[c1].outcome = calls[c2].outcome)

\* C9 witness: two calls with the same image have both reported a match.
C9_Witness ==
    \E c1, c2 \in Calls :
        /\ c1 # c2
        /\ calls[c1].pc = "Done" /\ calls[c2].pc = "Done"
        /\ calls[c1].image_data = calls[c2].image_data
        /\ calls[c1].outcome.value # <<>>
        /\ calls[c2].outcome.value # <<>>

\* C10: under every interleaving of the calls in flight, a call ends with the
\* result the same call gives when it runs alone.
C10_InterleavedAsAlone ==
    Constructed =>
        \A c \in Calls :
            Ended(c) =>
                calls[c].outcome
                    = analyze_image(ai_service.val, CLIP_AVAILABLE, calls[c].image_data)

\* C10 witness: a call has reported a match while a call with another image
\* is in the middle of its scan.
C10_Witness ==
    \E c1, c2 \in Calls :
        /\ calls[c1].pc = "Done"
        /\ calls[c1].outcome.value # <<>>
        /\ calls[c2].pc = "Scanning"
        /\ Len(calls[c2].similarities) = 1
        /\ calls[c2].image_data # calls[c1].image_data

\* C14: the comparator is symmetric on embeddings of one dimension, and its
\* value s is (cos(a, b) + 1) / 2, that is 2 s |a| |b| = a.b + |a| |b|
\* (s in thousandths).
C14_ComparatorSymmetric ==
    (comparator.pc = "Both" /\ comparator.a.some /\ comparator.b.some
     /\ Len(comparator.a.val) = Len(comparator.b.val)) =>
        LET a == comparator.a.val
            b == comparator.b.val
        IN  /\ comparator.forth = comparator.back
            /\ 2 * comparator.forth * Norm(a) * Norm(b)
                   = 1000 * (Dot(a, b) + Norm(a) * Norm(b))

\* C14 witness: two different embeddings of different norm were compared in
\* both orders.
C14_Witness ==
    /\ comparator.pc = "Both"
    /\ comparator.a.some /\ comparator.b.some
    /\ Len(comparator.a.val) = Len(comparator.b.val)
    /\ Norm(comparator.a.val) # Norm(comparator.b.val)
    /\ comparator.forth \notin {0, 500, 1000}

----------------------------------------------------------------------------
(* Properties of the matcher and the local scorer *)

Scored == scorer.pc \in {"Both", "More"}

\* the order of two scores
KindRank(score) == CASE score.kind = "zero" -> 0 [] score.kind = "sigmoid" -> 1 [] OTHER -> 2

ScoreLess(a, b) ==
    \/ KindRank(a) < KindRank(b)
    \/ a.kind = "sigmoid" /\ b.kind = "sigmoid" /\ a.num * b.den < b.num * a.den

ScoreEqual(a, b) ==
    /\ a.kind = b.kind
    /\ a.kind = "sigmoid" => a.num * b.den = b.num * a.den

\* a scoring call that gets as far as the sigmoid
ReachesSigmoid(args) ==
    /\ args.query_descriptors.some /\ args.stored_descriptors.some
    /\ ~args.knn_raises
    /\ args.query_keypoints > 0 /\ args.stored_keypoints > 0

SmallerCount(args) == Min(args.query_keypoints, args.stored_keypoints)
LargerCount(args) == Max(args.query_keypoints, args.stored_keypoints)

\* the four scoring calls a state holds: arguments, result, ratio in tenths
ScoringCalls ==
    {[args |-> scorer.args, result |-> scorer.simple, ratio |-> 8],
     [args |-> scorer.args, result |-> scorer.detailed, ratio |-> 7]}
    \cup IF scorer.pc = "More"
         THEN {[args |-> scorer.more, result |-> scorer.simple_more, ratio |-> 8],
               [args |-> scorer.more, result |-> scorer.detailed_more, ratio |-> 7]}
         ELSE {}

\* C11 (as stated): the score of both functions lies strictly between 0 and
\* 1 for every input, zero counts and null descriptor sets included.
C11_StrictlyInside ==
    Scored => \A c \in ScoringCalls : c.result.similarity.kind = "sigmoid"

\* C11 (amended): the score lies in [0, 1].  It is exactly 0.0 when a
\* descriptor set is null, a keypoint count is 0 or the matcher fails;
\* otherwise it is above 0, below 1 whenever the accepted count is at most
\* 4.74 times the smaller keypoint count (so whenever it does not exceed that
\* count), and exactly 1.0 in compute_image_similarity once the accepted
\* count reaches 5 times the smaller count.
C11_ScoreInClosedUnit ==
    Scored => \A c \in ScoringCalls :
        LET score == c.result.similarity
            good == Len(c.result.good_matches)
        IN  /\ ~ReachesSigmoid(c.args) => score.kind = "zero"
            /\ ReachesSigmoid(c.args) =>
                  /\ score.kind \in {"sigmoid", "one"}
                  /\ score.num >= 0 /\ score.den > 0
                  /\ 100 * good <= 474 * SmallerCount(c.args) => score.kind = "sigmoid"
                  /\ (c.ratio = 8 /\ good >= 5 * SmallerCount(c.args)) => score.kind = "one"

\* C11 witness: one input on which compute_image_similarity returns exactly
\* 1.0 and compute_image_similarity_detailed a score inside (0, 1).
C11_Witness ==
    /\ scorer.pc = "Both"
    /\ scorer.simple.similarity.kind = "one"
    /\ scorer.detailed.similarity.kind = "sigmoid"

ScoreSteps ==
    {st \in {[before |-> scorer.simple, after |-> scorer.simple_more],
             [before |-> scorer.detailed, after |-> scorer.detailed_more]} :
        Len(st.after.good_matches) = Len(st.before.good_matches) + 1}

BlendedScore(good, smaller, larger) ==
    LET absolute == IF smaller = 0 THEN <<0, 1>> ELSE <<good, smaller>>
        relative == IF larger = 0 THEN <<0, 1>> ELSE <<good, larger>>
    IN  [kind |-> "sigmoid",
         num |-> 7 * absolute[1] * relative[2] + 3 * relative[1] * absolute[2],
         den |-> 10 * absolute[2] * relative[2]]

\* keypoint counts with which no accepted count takes a score to the
\* rounding at 1.0: the query has less than 4.75 times the keypoints of the
\* stored image
NeverSaturates(args) ==
    args.stored_keypoints = 0 \/ 4 * args.query_keypoints < 19 * args.stored_keypoints

C20_AcceptedPassRatioTest ==
    (Scored /\ ~scorer.args.knn_raises /\ scorer.args.query_descriptors.some
     /\ scorer.args.stored_descriptors.some) =>
        \A c \in ScoringCalls :
            /\ \A k \in 1..Len(c.result.good_matches) :
                  LET match_pair == c.args.matches[c.result.good_matches[k]]
                  IN  /\ Len(match_pair) = 2
                      /\ 10 * match_pair[1] < c.ratio * match_pair[2]
            /\ Len(c.result.good_matches) <= Len(c.args.matches)
            /\ Len(c.args.matches) <= c.args.query_descriptors.val

\* C20 witness: some correspondences were accepted by the 0.8 test and none
\* by the 0.7 test, and a pair sat exactly on the 0.8 boundary.
C20_Witness ==
    /\ scorer.pc = "Both"
    /\ scorer.simple.good_matches # <<>>
    /\ scorer.detailed.good_matches = <<>>
    /\ \E i \in 1..Len(scorer.args.matches) : scorer.args.matches[i] = <<8, 10>>

----------------------------------------------------------------------------
(* Properties of the keypoint extractor *)

Extracted == extractor.pc = "Done"

\* the detector ran: the bytes were decoded and no step raised
DetectionRan == extractor.image_bytes.decodes /\ ~extractor.image_bytes.raises

\* C13: the extractor returns no keypoints and no descriptors whenever
\* detection yields fewer than 10 keypoints or null descriptors, and
\* returns features whenever detection yields 10 or more keypoints with
\* descriptors; a failure inside never reaches the caller.
C13_InsufficientBelowTen ==
    Extracted =>
        LET detected == Len(extractor.image_bytes.keypoints)
            null == ~extractor.image_bytes.descriptors.some
            features == extractor.features
        IN  /\ features.keypoints.some <=> features.descriptors.some
            /\ ~DetectionRan => ~features.keypoints.some
            /\ (DetectionRan /\ (detected < 10 \/ null)) => ~features.keypoints.some
            /\ (DetectionRan /\ detected >= 10 /\ ~null) => features.keypoints.some

\* C13 witness: detection gave exactly 10 keypoints with descriptors and the
\* extractor returned them.
C13_Witness ==
    /\ Extracted /\ DetectionRan
    /\ Len(extractor.image_bytes.keypoints) = 10
    /\ extractor.features.keypoints.some

\* C16: every successful return has as many descriptor rows as keypoints,
\* and row i describes keypoint i, also when the 1000 strongest keypoints
\* were kept and their descriptors recomputed.
C16_DescriptorsMatchKeypoints ==
    (Extracted /\ extractor.features.keypoints.some) =>
        LET keypoints == extractor.features.keypoints.val
            descriptors == extractor.features.descriptors.val
        IN  /\ Len(descriptors) = Len(keypoints)
            /\ \A i \in 1..Len(keypoints) : descriptors[i] = keypoints[i].id

\* C16 witness: more than 1000 keypoints of different strengths were
\* detected and 1000 were returned, not the first 1000.
C16_Witness ==
    /\ Extracted /\ extractor.features.keypoints.some
    /\ Len(extractor.image_bytes.keypoints) > 1000
    /\ Len(extractor.features.keypoints.val) = 1000
    /\ extractor.features.keypoints.val[1].id # 1

----------------------------------------------------------------------------
(* Properties of the corpus builders *)

\* the content of the reference image of a catalog part, "" when the file
\* is not there
ReferenceImage(material_number) ==
    LET part == CHOOSE p \in {parts_with_images[k] : k \in 1..Len(parts_with_images)} :
                    p.material_number = material_number
        found == FilesAt(IMAGES_ROOT, part.image_path.rel_path)
    IN  IF found = <<>> THEN "" ELSE found[1].content

\* C15: a query that is an exact duplicate of the reference image of SP006
\* gets exactly one result, with identifier "SP006" and confidence >= 0.95.
C15_DuplicateOfSP006 ==
    \A c \in Calls :
        (/\ calls[c].pc = "Done"
         /\ is_model_available(ai_service.val)
         /\ calls[c].image_data = ReferenceImage("SP006")) =>
            /\ calls[c].outcome.kind = "returned"
            /\ Len(calls[c].outcome.value) = 1
            /\ calls[c].outcome.value[1].material_number = "SP006"
            /\ calls[c].outcome.value[1].confidence_score >= 950

\* C17: no two entries of a corpus written by compute_clip_embeddings or
\* regenerate_features share a material_number.
C17_UniqueIdentifiers ==
    (last_build.by \in {"compute_clip_embeddings", "regenerate_features"}
     /\ last_build.written) =>
        \A i, j \in 1..Len(MAPPING_FILE.content) :
            MAPPING_FILE.content[i].material_number = MAPPING_FILE.content[j].material_number
                => i = j

\* C18: after a builder run that processed an image, the feature archive
\* and the metadata array have equal length and the metadata element at
\* position i carries feature_index i (positions counted from 0).
C18_ArchiveAlignedWithMetadata ==
    (last_build.by # "" /\ last_build.images > 0) =>
        /\ EMBEDDINGS_FILE.readable /\ MAPPING_FILE.readable
        /\ Len(EMBEDDINGS_FILE.content) = Len(MAPPING_FILE.content)
        /\ \A i \in 1..Len(MAPPING_FILE.content) :
              MAPPING_FILE.content[i].feature_index = i - 1

----------------------------------------------------------------------------
(* Further properties of the matcher and of the extractor *)

\* a descriptor set that is None or has no rows
NullOrEmpty(descriptors) == ~descriptors.some \/ descriptors.val = 0

\* C21: when the query or the stored descriptor set is null or empty, both
\* scoring functions accept no correspondence and return normally, with the
\* score 0.0, whether the matcher raises on the empty set or not.
C21_NullOrEmptyGivesZero ==
    Scored => \A c \in ScoringCalls :
        (NullOrEmpty(c.args.query_descriptors) \/ NullOrEmpty(c.args.stored_descriptors)) =>
            /\ c.result.good_matches = <<>>
            /\ c.result.similarity = ZeroScore

\* C21 witness: an empty, not null, query set was matched against a stored
\* set with rows, and the matcher did not raise.
C21_Witness ==
    /\ scorer.pc = "Both"
    /\ scorer.args.query_descriptors = Some(0)
    /\ scorer.args.stored_descriptors.some /\ scorer.args.stored_descriptors.val > 0
    /\ ~scorer.args.knn_raises

\* keypoint x is kept before keypoint y: stronger, or as strong and
\* detected earlier
Outranks(x, y) == x.response > y.response \/ (x.response = y.response /\ x.id < y.id)

\* C22: with more than 1000 keypoints detected the extractor returns
\* exactly 1000, each of them stronger than every keypoint left out or as
\* strong and detected earlier, the strongest first and keypoints of one
\* response in detection order; with 1000 or fewer it returns the detected
\* sequence unchanged.
C22_KeepsStrongestThousand ==
    (Extracted /\ extractor.features.keypoints.some) =>
        LET detected == extractor.image_bytes.keypoints
            kept == extractor.features.keypoints.val
            kept_ids == {kept[i].id : i \in 1..Len(kept)}
        IN  IF Len(detected) <= 1000 THEN kept = detected
            ELSE /\ Len(kept) = 1000
                 /\ Cardinality(kept_ids) = 1000
                 /\ \A i \in 1..Len(kept) : kept[i] = detected[kept[i].id]
                 /\ \A i \in 1..Len(kept) : \A j \in 1..Len(detected) :
                       detected[j].id \notin kept_ids => Outranks(kept[i], detected[j])
                 /\ \A i \in 1..(Len(kept) - 1) : Outranks(kept[i], kept[i + 1])

\* C22 witness: of more than 1000 keypoints one left out was as strong as
\* one that was kept, and a stronger keypoint was moved before the first
\* detected.
C22_Witness ==
    /\ Extracted /\ extractor.features.keypoints.some
    /\ Len(extractor.image_bytes.keypoints) > 1000
    /\ extractor.features.keypoints.val[1].id # 1
    /\ LET detected == extractor.image_bytes.keypoints
           kept == extractor.features.keypoints.val
       IN  \E j \in 1..Len(detected) :
               /\ \A i \in 1..Len(kept) : kept[i].id # j
               /\ detected[j].response = kept[Len(kept)].response

----------------------------------------------------------------------------
(* The phases of a match request *)

\* the steps of the request state machine: the phases in their order, the
\* two short cuts to Done (store unavailable, extraction failed), and the
\* hand-over of the result
PhaseSteps ==
    {<<"Idle", "Extracting">>, <<"Extracting", "Scanning">>, <<"Scanning", "Ranking">>,
     <<"Ranking", "Done">>, <<"Idle", "Done">>, <<"Extracting", "Done">>,
     <<"Done", "Idle">>}

\* C23: a match request moves through Idle, Extracting, Scanning, Ranking,
\* Done in that order, and a request that finds the store unavailable goes
\* from Idle to Done with no embedding extraction and no comparison.
C23_PhasesInOrder ==
    [][\A c \in Calls :
          calls'[c].pc # calls[c].pc =>
              /\ <<calls[c].pc, calls'[c].pc>> \in PhaseSteps
              /\ (calls[c].pc = "Idle" /\ ~is_model_available(ai_service.val)) =>
                    /\ calls'[c].pc = "Done"
                    /\ calls'[c].invoked \cap {"get_clip_features_from_bytes",
                                               "compute_clip_similarity_detailed"} = {}]_vars

\* the requests whose handler has finished past the content type check
Handled(r) == requests[r].pc = "Done" /\ requests[r].response.status # 400

\* C24: with the feature store unavailable an upload answers with no
\* matches, whether or not health_check has been called before it
C24_NoMatchesWhenUnavailable ==
    \A r \in Calls :
        (Handled(r) /\ StoreUnavailable) =>
            requests[r].response.search_results = <<>>

\* C25: every request analyses the bytes it uploaded itself, also when
\* another request saved other bytes under the same path
C25_AnalysesOwnBytes ==
    \A r \in Calls :
        (requests[r].pc = "Read" \/ Handled(r)) =>
            requests[r].image_data = requests[r].file.bytes

C25_Witness ==
    \E r1, r2 \in Calls :
        /\ Handled(r1)
        /\ requests[r2].pc = "Read"
        /\ requests[r1].file_path = requests[r2].file_path
        /\ requests[r1].file.bytes # requests[r2].file.bytes

\* C29: every search result of an upload carries a row of the parts table,
\* and the results are in order of non-increasing confidence
C29_ResultsAreStoredParts ==
    \A r \in Calls :
        Handled(r) =>
            LET results == requests[r].response.search_results
            IN  /\ \A i \in 1..Len(results) :
                       \E k \in 1..Len(spare_parts) : spare_parts[k] = results[i].spare_part
                /\ \A i \in 1..Len(results) - 1 :
                       results[i].confidence_score >= results[i + 1].confidence_score

C29_Witness ==
    \E r1, r2 \in Calls :
        /\ Handled(r1) /\ Handled(r2)
        /\ ai_available
        /\ Len(requests[r1].response.search_results) = 1
        /\ requests[r2].ai_matches.kind = "returned"
        /\ Len(requests[r2].ai_matches.value) = 1
        /\ requests[r2].response.search_results = <<>>

\* C30: when processing fails after the save the saved file is removed and
\* the answer is 500; when it succeeds the saved file stays in uploads
C30_FileFollowsOutcome ==
    [][\A r \in Calls :
          (requests[r].pc \in {"Saved", "Read"} /\ requests'[r].pc = "Done") =>
              IF requests'[r].ai_matches.kind = "raised"
              THEN /\ requests'[r].response.status = 500
                   /\ UPLOAD_DIR'[requests[r].file_path] = "absent"
              ELSE /\ requests'[r].response.status = 200
                   /\ UPLOAD_DIR'[requests[r].file_path] = requests[r].file.bytes]_vars

C30_Witness ==
    \E r1, r2 \in Calls :
        /\ Handled(r1) /\ Handled(r2)
        /\ requests[r1].response.status = 500
        /\ UPLOAD_DIR[requests[r1].file_path] = "absent"
        /\ requests[r2].response.status = 200
        /\ UPLOAD_DIR[requests[r2].file_path] = requests[r2].file.bytes

\* C26: no two stored parts share a material_number, and a create_spare_part
\* call for a stored number answers 400 "Material number already exists" and
\* leaves the table as it was
C26_UniqueMaterialNumbers ==
    /\ \A i, j \in 1..Len(spare_parts) :
           spare_parts[i].material_number = spare_parts[j].material_number => i = j
    /\ (/\ last_call.pc = "create_spare_part"
        /\ last_call.material_number \in material_numbers(last_call.before)) =>
           /\ last_call.status = 400
           /\ last_call.detail = "Material number already exists"
           /\ spare_parts = last_call.before

C26_Witness ==
    /\ last_call.pc = "create_spare_part"
    /\ last_call.material_number = "IMG_3701"
    /\ last_call.status = 400
    /\ \E k \in 1..Len(spare_parts) :
           /\ spare_parts[k].material_number = "IMG_3701"
           /\ spare_parts[k].category = "AI Detected"

\* the entries of the metadata file whose number the table did not hold
MissingEntries(mapping, stored_rows) ==
    SelectSeq(mapping,
              LAMBDA entry : entry.material_number \notin material_numbers(stored_rows))

\* C27: a run of add_missing_parts inserts one row for every metadata entry
\* whose number was not in the table, or it inserts none; the rows that
\* were in the table are as they were
C27_AllOrNothing ==
    last_call.pc = "add_missing_parts" =>
        LET missing == MissingEntries(last_call.mapping, last_call.before)
            stored == Len(last_call.before)
        IN  /\ SubSeq(spare_parts, 1, stored) = last_call.before
            /\ IF last_call.outcome = "committed"
               THEN /\ Len(spare_parts) = stored + Len(missing)
                    /\ \A k \in 1..Len(missing) :
                           spare_parts[stored + k].material_number
                               = missing[k].material_number
               ELSE spare_parts = last_call.before

C27_Witness ==
    /\ last_call.pc = "add_missing_parts"
    /\ last_call.outcome = "rolled back"
    /\ Len(last_call.mapping) = 2
    /\ last_call.mapping[1].material_number \notin material_numbers(last_call.before)
    /\ last_call.mapping[2].material_number = last_call.mapping[1].material_number

\* C28: after a run of add_missing_parts every material_number of the
\* metadata file is in the table
C28_EveryNumberStored ==
    last_call.pc = "add_missing_parts" =>
        \A k \in 1..Len(last_call.mapping) :
            last_call.mapping[k].material_number \in material_numbers(spare_parts)

====
